---------------------------- MODULE Spec2Model ----------------------------
(***************************************************************************)
(* Model of src/main.py: a Streamlit script that loads a JSON value from   *)
(* an uploaded file or an HTTP GET, renders it, and prints a structural    *)
(* outline of it (analyze_json_structure).                                 *)
(*                                                                         *)
(* A script run is main() executed top to bottom; the widgets' values are  *)
(* the session state that survives between runs.  The outline walk is      *)
(* modelled statement by statement with an explicit call stack.            *)
(***************************************************************************)
EXTENDS Integers, Sequences, FiniteSets, TLC

(***************************************************************************)
(* Program constants.                                                      *)
(***************************************************************************)
OBJ_THRESHOLD == 1000
ARR_THRESHOLD == 500
PREVIEW_LEN == 50
ARR_CAP == 3

(***************************************************************************)
(* Bounds of the model.                                                    *)
(***************************************************************************)
\* string forms are tried Slack characters either side of every threshold
Slack == 1
\* script runs of one session (the first run happens on page load)
MaxRuns == 5

(***************************************************************************)
(* State.                                                                  *)
(***************************************************************************)
VARIABLES
    \* widget values, kept by the session between script runs
    input_method,     \* the sidebar selectbox: "file" or "api"
    uploaded_file,    \* 0 (None) or an index of Files
    api_url,          \* NoText or a URL
    api_key,          \* NoText or a key
    auth_header,      \* the selectbox shown while api_key is set
    custom_headers,   \* 0 (empty text) or an index of HeaderTexts
    \* the script run in progress
    button,           \* st.button's value in this run
    pc,               \* "main", "display", "analyze" or "done"
    json_data,        \* main's local; JNull is Python's None
    messages,         \* st.success / st.error / st.warning calls of this run
    request,          \* the requests.get call of this run
    crashed,          \* an exception left main
    shown,            \* what display_json_data rendered in this run
    stack,            \* activations of analyze_json_structure
    out,              \* the st.write lines of analyze_json_structure
    entries,          \* calls of analyze_json_structure in this run
    \* history
    runs,             \* script runs so far
    trigger,          \* the interaction that started this run
    prev_shown,       \* display_json_data ran in the previous run
    prev_data,        \* json_data and out of the latest run in which it ran
    prev_out

widgets == << input_method, uploaded_file, api_url, api_key, auth_header, custom_headers >>
history == << runs, trigger, prev_shown, prev_data, prev_out >>
vars == << input_method, uploaded_file, api_url, api_key, auth_header, custom_headers,
           button, pc, json_data, messages, request, crashed, shown, stack, out,
           entries, runs, trigger, prev_shown, prev_data, prev_out >>

(***************************************************************************)
(* Python str values that the walk measures or slices are run-length       *)
(* encoded: a sequence of runs [c, n] stands for c repeated n times, runs  *)
(* concatenated.  Dict keys, path labels and header names are such texts.  *)
(***************************************************************************)
Run(c, n) == [c |-> c, n |-> n]

Rep(c, n) == IF n = 0 THEN << >> ELSE << Run(c, n) >>

RECURSIVE TextLen(_)
TextLen(s) == IF s = << >> THEN 0 ELSE s[1].n + TextLen(Tail(s))

\* the i-th character (1-based) of s, for 1 <= i <= TextLen(s)
RECURSIVE CharAt(_, _)
CharAt(s, i) == IF i <= s[1].n THEN s[1].c ELSE CharAt(Tail(s), i - s[1].n)

\* s[:k]
RECURSIVE Take(_, _)
Take(s, k) ==
    IF k <= 0 \/ s = << >> THEN << >>
    ELSE IF s[1].n <= k THEN << s[1] >> \o Take(Tail(s), k - s[1].n)
    ELSE << Run(s[1].c, k) >>

\* s + t, kept in normal form (adjacent runs differ)
Concat(s, t) ==
    IF s = << >> THEN t
    ELSE IF t = << >> THEN s
    ELSE IF s[Len(s)].c = t[1].c
         THEN SubSeq(s, 1, Len(s) - 1)
              \o << Run(t[1].c, s[Len(s)].n + t[1].n) >> \o Tail(t)
         ELSE s \o t

Ellipsis == << Run(".", 3) >>

\* the text of a short literal
RECURSIVE Lit(_)
Lit(w) == IF w = << >> THEN << >> ELSE Concat(<< Run(w[1], 1) >>, Lit(Tail(w)))

(***************************************************************************)
(* JSON values as json.load / response.json() return them.                 *)
(***************************************************************************)
JNull == [t |-> "NoneType", keys |-> << >>, vals |-> << >>, s |-> << >>, n |-> 0]
JBool(b) == [t |-> "bool", keys |-> << >>, vals |-> << >>, s |-> << >>, n |-> IF b THEN 1 ELSE 0]
JInt(n) == [t |-> "int", keys |-> << >>, vals |-> << >>, s |-> << >>, n |-> n]
JStr(s) == [t |-> "str", keys |-> << >>, vals |-> << >>, s |-> s, n |-> 0]
JList(vals) == [t |-> "list", keys |-> << >>, vals |-> vals, s |-> << >>, n |-> 0]
JDict(keys, vals) == [t |-> "dict", keys |-> keys, vals |-> vals, s |-> << >>, n |-> 0]

\* isinstance(value, (dict, list))
IsContainer(v) == v.t \in {"dict", "list"}

\* len(data)
Size(v) == Len(v.vals)

RECURSIVE SeqSum(_)
SeqSum(q) == IF q = << >> THEN 0 ELSE q[1] + SeqSum(Tail(q))

\* str(n) for an int
RECURSIVE IntStr(_)
IntStr(n) ==
    IF n < 0 THEN Concat(<< Run("-", 1) >>, IntStr(0 - n))
    ELSE IF n < 10 THEN << Run(ToString(n), 1) >>
    ELSE Concat(IntStr(n \div 10), << Run(ToString(n % 10), 1) >>)

\* str(value) for a scalar value
ScalarStr(v) ==
    CASE v.t = "str" -> v.s
      [] v.t = "int" -> IntStr(v.n)
      [] v.t = "bool" -> IF v.n = 1 THEN Lit(<<"T", "r", "u", "e">>)
                         ELSE Lit(<<"F", "a", "l", "s", "e">>)
      [] OTHER -> Lit(<<"N", "o", "n", "e">>)

\* len(repr(value)): what a value contributes inside str() of a container.
\* Strings hold only characters that repr leaves alone, so repr adds the quotes.
RECURSIVE ReprLen(_)
ReprLen(v) ==
    CASE v.t = "str" -> TextLen(v.s) + 2
      [] v.t = "list" ->
           IF Size(v) = 0 THEN 2
           ELSE 2 + SeqSum([i \in 1..Size(v) |-> ReprLen(v.vals[i])])
                  + 2 * (Size(v) - 1)
      [] v.t = "dict" ->
           IF Size(v) = 0 THEN 2
           ELSE 2 + SeqSum([i \in 1..Size(v) |->
                               (TextLen(v.keys[i]) + 2) + 2 + ReprLen(v.vals[i])])
                  + 2 * (Size(v) - 1)
      [] OTHER -> TextLen(ScalarStr(v))

\* len(str(value))
StrLen(v) == IF v.t = "str" THEN TextLen(v.s) ELSE ReprLen(v)

\* len(json.dumps(value, ensure_ascii=False, indent=2)) of a value printed at
\* nesting depth d
RECURSIVE DumpsLen(_, _)
DumpsLen(v, d) ==
    CASE v.t = "str" -> TextLen(v.s) + 2
      [] v.t = "list" ->
           IF Size(v) = 0 THEN 2
           ELSE 1 + SeqSum([i \in 1..Size(v) |->
                               1 + 2 * (d + 1) + DumpsLen(v.vals[i], d + 1)])
                  + (Size(v) - 1) + 1 + 2 * d + 1
      [] v.t = "dict" ->
           IF Size(v) = 0 THEN 2
           ELSE 1 + SeqSum([i \in 1..Size(v) |->
                               1 + 2 * (d + 1) + (TextLen(v.keys[i]) + 2) + 2
                               + DumpsLen(v.vals[i], d + 1)])
                  + (Size(v) - 1) + 1 + 2 * d + 1
      [] OTHER -> TextLen(ScalarStr(v))

JsonStrLen(v) == DumpsLen(v, 0)

(***************************************************************************)
(* analyze_json_structure: the lines it writes and its recursion guards.   *)
(***************************************************************************)
NoText == << >>

\* a root label that counts the script runs
LabelOfCounted(prefix) ==
    IF prefix # NoText THEN prefix ELSE Concat(Lit(<<"R", "o", "o", "t">>), IntStr(runs))

\* f"{prefix if prefix else 'Root'}"
LabelOf(prefix) == IF prefix # NoText THEN prefix ELSE Lit(<<"R", "o", "o", "t">>)

\* st.write(f"**{label}** (辞書型 - {len(data)} keys)") and the 配列型 line
HeaderLine(data, prefix) ==
    [kind |-> "header", label |-> LabelOf(prefix), type |-> data.t,
     count |-> Size(data), preview |-> NoText]

\* st.write(f"  • `{key}`: {value_type}")
ChildLine(key, value) ==
    [kind |-> "child", label |-> key, type |-> value.t, count |-> 0,
     preview |-> NoText]

\* a preview that cuts one character early
PreviewEarly(value) ==
    IF TextLen(ScalarStr(value)) >= PREVIEW_LEN
    THEN Concat(Take(ScalarStr(value), PREVIEW_LEN), Ellipsis)
    ELSE ScalarStr(value)

\* str(value)[:50] + "..." if len(str(value)) > 50 else str(value)
Preview(value) ==
    IF TextLen(ScalarStr(value)) > PREVIEW_LEN
    THEN Concat(Take(ScalarStr(value), PREVIEW_LEN), Ellipsis)
    ELSE ScalarStr(value)

\* st.write(f"  • `{key}`: {value_type} = {preview}")
ScalarLine(key, value) ==
    [kind |-> "scalar", label |-> key, type |-> value.t, count |-> 0,
     preview |-> Preview(value)]

\* st.write(f"  • 要素型: {first_item_type}")
ElemTypeLine(data) ==
    [kind |-> "elemtype", label |-> NoText, type |-> data.vals[1].t, count |-> 0,
     preview |-> NoText]

\* a guard that lets the threshold itself through
ExpandObjectChildLe(value) == StrLen(value) <= OBJ_THRESHOLD

\* len(str(value)) < 1000
ExpandObjectChild(value) == StrLen(value) < OBJ_THRESHOLD

\* a guard that lets the threshold itself through
ExpandArrayItemLe(item) == IsContainer(item) /\ StrLen(item) <= ARR_THRESHOLD

\* isinstance(item, (dict, list)) and len(str(item)) < 500
ExpandArrayItem(item) == IsContainer(item) /\ StrLen(item) < ARR_THRESHOLD

\* len(data) <= 3
WithinCap(data) == Size(data) <= ARR_CAP

\* f"{prefix}.{key}" if prefix else key
ObjectChildPath(prefix, key) ==
    IF prefix # NoText THEN Concat(Concat(prefix, Lit(<<".">>)), key) ELSE key

\* f"{prefix}[{i}]" if prefix else f"[{i}]", i the 0-based index of enumerate
ArrayItemPath(prefix, i) ==
    Concat(prefix, Concat(Concat(Lit(<<"[">>), IntStr(i)), Lit(<<"]">>)))

\* one activation of analyze_json_structure(data, prefix); i is the 1-based
\* position of the loop it is in
Frame(data, prefix) == [data |-> data, prefix |-> prefix, stage |-> "header", i |-> 1]

(***************************************************************************)
(* Inputs.                                                                 *)
(***************************************************************************)
T1(c) == Lit(<< c >>)

S(n) == JStr(Rep("a", n))

\* {"x": "aa..a"} whose str() has n characters
Boxed(n) == JDict(<< T1("x") >>, << S(n - 9) >>)

\* ["aa..a"] whose str() has n characters
Listed(n) == JList(<< S(n - 4) >>)

Width == 2 * Slack + 1

Alphabet ==
    Lit(<<"a", "b", "c", "d", "e", "f", "g", "h", "i", "j", "k", "l", "m",
          "n", "o", "p", "q", "r", "s", "t", "u", "v", "w", "x", "y", "z">>)

\* {"a": 1, "b": {"x": 1}}
DocSpec == JDict(<< T1("a"), T1("b") >>, << JInt(1), JDict(<< T1("x") >>, << JInt(1) >>) >>)

\* scalar children whose str() is around the preview length
DocPreview ==
    JDict([i \in 1..(Width + 1) |-> Concat(T1("s"), IntStr(PREVIEW_LEN - Slack + i - 1))]
            \o << T1("z"), T1("n"), T1("t"), T1("f"), T1("i"), T1("e") >>,
          [i \in 1..(Width + 1) |-> S(PREVIEW_LEN - Slack + i - 1)]
            \o << JStr(Concat(Alphabet, Alphabet)), JNull, JBool(TRUE), JBool(FALSE),
                  JInt(-1204), S(0) >>)

\* dict and list children whose str() is around the object threshold
DocObj ==
    JDict([i \in 1..Width |-> Concat(T1("d"), IntStr(OBJ_THRESHOLD - Slack + i - 1))]
            \o [i \in 1..Width |-> Concat(T1("l"), IntStr(OBJ_THRESHOLD - Slack + i - 1))],
          [i \in 1..Width |-> Boxed(OBJ_THRESHOLD - Slack + i - 1)]
            \o [i \in 1..Width |-> Listed(OBJ_THRESHOLD - Slack + i - 1)])

\* an array of at most 3 items whose str() has n characters each
DocArr(n) == JList(<< Boxed(n), Listed(n), S(n) >>)

\* [1, 2, 3, 4, 5]
DocFive == JList(<< JInt(1), JInt(2), JInt(3), JInt(4), JInt(5) >>)

\* four small containers: over the element cap
DocFour == JList(<< Boxed(12), JList(<< JInt(1) >>), JDict(<< >>, << >>), JList(<< >>) >>)

\* [{"k": 1}, {"k": {"z": [1]}}]
DocTwo ==
    JList(<< JDict(<< T1("k") >>, << JInt(1) >>),
             JDict(<< T1("k") >>, << JDict(<< T1("z") >>, << JList(<< JInt(1) >>) >>) >>) >>)

\* {"a": [{"x": 1}, [2], 3], "": {"y": {"z": 1}}, "c": {"big": [..5 items..]}}
DocNest ==
    JDict(<< T1("a"), NoText, T1("c") >>,
          << JList(<< JDict(<< T1("x") >>, << JInt(1) >>), JList(<< JInt(2) >>), JInt(3) >>),
             JDict(<< T1("y") >>, << JDict(<< T1("z") >>, << JInt(1) >>) >>),
             JDict(<< Lit(<<"b", "i", "g">>) >>, << DocFive >>) >>)

Scalars == { JNull, JBool(TRUE), JInt(7), S(3) }

\* the values the outline walk is checked on
WalkValues ==
    { DocSpec, DocPreview, DocObj, DocFive, DocFour, DocTwo, DocNest,
      JDict(<< >>, << >>), JList(<< >>) }
    \cup { DocArr(n) : n \in (ARR_THRESHOLD - Slack)..(ARR_THRESHOLD + Slack) }
    \cup Scalars

WalkPaths == { NoText, T1("p") }

\* uploaded files: bytes that are not UTF-8, text that is not JSON, JSON texts
File(utf8, valid, value) == [utf8 |-> utf8, valid |-> valid, value |-> value]

Files ==
    << File(FALSE, FALSE, JNull), File(TRUE, FALSE, JNull),
       File(TRUE, TRUE, DocSpec), File(TRUE, TRUE, DocTwo),
       File(TRUE, TRUE, JNull), File(TRUE, TRUE, JInt(7)),
       File(TRUE, TRUE, DocNest) >>

\* what requests.get and the response hold
Response(kind, value) == [kind |-> kind, value |-> value]

Responses ==
    { Response("transport_error", JNull), Response("http_error", JNull),
      Response("bad_body", JNull),
      Response("ok", DocSpec), Response("ok", DocTwo), Response("ok", JNull),
      Response("ok", S(3)) }

\* custom-header texts: not JSON, a JSON object, JSON that is not an object
HeaderText(valid, value) == [valid |-> valid, value |-> value]

HeaderTexts ==
    << HeaderText(FALSE, JNull),
       HeaderText(TRUE, JDict(<< Lit(<<"A", "c", "c", "e", "p", "t">>) >>, << S(3) >>)),
       HeaderText(TRUE, JInt(5)),
       HeaderText(TRUE, JList(<< >>)) >>

AuthOptions == << "Authorization: Bearer", "Authorization: API-Key", "X-API-Key" >>

NotShown == [on |-> FALSE, type |-> "", size |-> -1, raw_len |-> 0]
NoRequest == [sent |-> FALSE, headers |-> {}, resp |-> "none"]
Url == Lit(<<"u">>)
Key == Lit(<<"k">>)

Msg(level, text) == [level |-> level, text |-> text]

(***************************************************************************)
(* handle_file_upload                                                      *)
(***************************************************************************)
\* the try block of handle_file_upload on an uploaded file
FileOutcome(f) ==
    IF ~f.utf8 THEN [data |-> JNull, msg |-> Msg("error", "read_failed")]
    ELSE IF ~f.valid THEN [data |-> JNull, msg |-> Msg("error", "bad_json")]
    ELSE [data |-> f.value, msg |-> Msg("success", "file_loaded")]

\* main without its None test
AfterHandlerAlways(data) == "display"

\* if json_data is not None: display_json_data(json_data)
AfterHandler(data) == IF data # JNull THEN "display" ELSE "done"

HandleFileUpload ==
    /\ pc = "main"
    /\ input_method = "file"
    /\ IF uploaded_file # 0
       THEN /\ json_data' = FileOutcome(Files[uploaded_file]).data
            /\ messages' = Append(messages, FileOutcome(Files[uploaded_file]).msg)
       ELSE /\ json_data' = JNull
            /\ UNCHANGED messages
    /\ pc' = AfterHandler(json_data')
    /\ UNCHANGED << widgets, history, button, request, crashed, shown, stack, out, entries >>

(***************************************************************************)
(* handle_api_request                                                      *)
(***************************************************************************)
\* the headers the API key adds
AuthHeaders(key, auth) ==
    IF key = NoText THEN {}
    ELSE IF auth \in {"Authorization: Bearer", "Authorization: API-Key"}
         THEN { Lit(<<"A", "u", "t", "h", "o", "r", "i", "z", "a", "t", "i", "o", "n">>) }
         ELSE { Lit(<<"X", "-", "A", "P", "I", "-", "K", "e", "y">>) }

\* one element of the iterable given to dict.update: a 2-sequence gives a key
IsPair(e) ==
    \/ e.t = "list" /\ Size(e) = 2 /\ ~IsContainer(e.vals[1])
    \/ e.t = "dict" /\ Size(e) = 2
    \/ e.t = "str" /\ TextLen(e.s) = 2

PairName(e) ==
    CASE e.t = "list" -> ScalarStr(e.vals[1])
      [] e.t = "dict" -> e.keys[1]
      [] OTHER -> Take(e.s, 1)

\* headers.update(custom_headers_dict): raises unless the value is a mapping
\* or an iterable of 2-sequences
DictUpdate(hs, v) ==
    CASE v.t = "dict" ->
           [ok |-> TRUE, headers |-> hs \cup { v.keys[i] : i \in 1..Size(v) }]
      [] v.t = "list" ->
           IF \A i \in 1..Size(v) : IsPair(v.vals[i])
           THEN [ok |-> TRUE, headers |-> hs \cup { PairName(v.vals[i]) : i \in 1..Size(v) }]
           ELSE [ok |-> FALSE, headers |-> hs]
      [] v.t = "str" -> [ok |-> TextLen(v.s) = 0, headers |-> hs]
      [] OTHER -> [ok |-> FALSE, headers |-> hs]

\* the custom-header block: ok is FALSE when an exception leaves it
CustomHeaders(hs, h) ==
    IF h = 0 THEN [ok |-> TRUE, headers |-> hs, msgs |-> << >>]
    ELSE IF ~HeaderTexts[h].valid
         THEN [ok |-> TRUE, headers |-> hs, msgs |-> << Msg("warning", "bad_headers") >>]
         ELSE [ok |-> DictUpdate(hs, HeaderTexts[h].value).ok,
               headers |-> DictUpdate(hs, HeaderTexts[h].value).headers,
               msgs |-> << >>]

\* the try block around requests.get: which except clause takes a body that is
\* not JSON depends on the requests version (its JSONDecodeError is a
\* RequestException in some, a plain json/ValueError in others)
FetchOutcomes(resp) ==
    CASE resp.kind \in {"transport_error", "http_error"} ->
           { [data |-> JNull, msg |-> Msg("error", "request_failed")] }
      [] resp.kind = "bad_body" ->
           { [data |-> JNull, msg |-> Msg("error", t)] :
                 t \in {"request_failed", "not_json", "unexpected"} }
      [] OTHER -> { [data |-> resp.value, msg |-> Msg("success", "api_loaded")] }

HandleApiRequest ==
    /\ pc = "main"
    /\ input_method = "api"
    /\ LET ch == CustomHeaders(AuthHeaders(api_key, auth_header), custom_headers)
       IN IF ~ch.ok
          THEN /\ crashed' = TRUE
               /\ pc' = "done"
               /\ messages' = messages \o ch.msgs
               /\ UNCHANGED << json_data, request >>
          ELSE IF button /\ api_url # NoText
          THEN \E resp \in Responses : \E o \in FetchOutcomes(resp) :
               /\ request' = [sent |-> TRUE, headers |-> ch.headers, resp |-> resp.kind]
               /\ json_data' = o.data
               /\ messages' = (messages \o ch.msgs) \o << o.msg >>
               /\ pc' = AfterHandler(o.data)
               /\ UNCHANGED crashed
          ELSE /\ json_data' = JNull
               /\ messages' = messages \o ch.msgs
               /\ pc' = AfterHandler(JNull)
               /\ UNCHANGED << request, crashed >>
    /\ UNCHANGED << widgets, history, button, shown, stack, out, entries >>

(***************************************************************************)
(* display_json_data                                                       *)
(***************************************************************************)
\* the metrics and the raw tab, then the call of analyze_json_structure
DisplayJsonData ==
    /\ pc = "display"
    /\ shown' = [on |-> TRUE, type |-> json_data.t,
                 size |-> IF IsContainer(json_data) THEN Size(json_data) ELSE -1,
                 raw_len |-> JsonStrLen(json_data)]
    /\ stack' = << Frame(json_data, NoText) >>
    /\ entries' = 1
    /\ pc' = "analyze"
    /\ UNCHANGED << widgets, history, button, json_data, messages, request, crashed, out >>

(***************************************************************************)
(* analyze_json_structure, one statement at a time.                        *)
(***************************************************************************)
Top == stack[Len(stack)]

Analyzing == pc = "analyze" /\ stack # << >>

\* a loop that never moves on
NextIndexStuck(i) == i

\* the loop variable moves on
NextIndex(i) == i + 1

\* the call is put off until the caller has returned
ContinueDeferred(f, call) == (SubSeq(stack, 1, Len(stack) - 1) \o call) \o << f >>

\* the running activation becomes f and, when call is not empty, calls it
Continue(f, call) == [stack EXCEPT ![Len(stack)] = f] \o call

\* the isinstance(data, dict) / isinstance(data, list) header line
AnalyzeHeader ==
    /\ Analyzing
    /\ Top.stage = "header"
    /\ IsContainer(Top.data)
    /\ out' = Append(out, HeaderLine(Top.data, Top.prefix))
    /\ stack' = Continue([Top EXCEPT !.stage = IF Top.data.t = "dict" THEN "items" ELSE "first"],
                         << >>)
    /\ UNCHANGED << widgets, history, button, pc, json_data, messages, request, crashed,
                    shown, entries >>

\* if data: the element type line, then if len(data) <= 3
AnalyzeElementType ==
    /\ Analyzing
    /\ Top.stage = "first"
    /\ IF Size(Top.data) > 0
       THEN /\ out' = Append(out, ElemTypeLine(Top.data))
            /\ stack' = Continue([Top EXCEPT !.stage = IF WithinCap(Top.data) THEN "items"
                                                       ELSE "end"], << >>)
       ELSE /\ out' = out
            /\ stack' = Continue([Top EXCEPT !.stage = "end"], << >>)
    /\ UNCHANGED << widgets, history, button, pc, json_data, messages, request, crashed,
                    shown, entries >>

\* one pass of for key, value in data.items()
AnalyzeDictItem ==
    /\ Analyzing
    /\ Top.data.t = "dict"
    /\ Top.stage = "items"
    /\ Top.i <= Size(Top.data)
    /\ LET key == Top.data.keys[Top.i]
           value == Top.data.vals[Top.i]
           next == [Top EXCEPT !.i = NextIndex(Top.i)]
       IN IF IsContainer(value)
          THEN /\ out' = Append(out, ChildLine(key, value))
               /\ IF ExpandObjectChild(value)
                  THEN /\ stack' = Continue(next, << Frame(value, ObjectChildPath(Top.prefix, key)) >>)
                       /\ entries' = entries + 1
                  ELSE /\ stack' = Continue(next, << >>)
                       /\ UNCHANGED entries
          ELSE /\ out' = Append(out, ScalarLine(key, value))
               /\ stack' = Continue(next, << >>)
               /\ UNCHANGED entries
    /\ UNCHANGED << widgets, history, button, pc, json_data, messages, request, crashed,
                    shown >>

\* one pass of for i, item in enumerate(data)
AnalyzeListItem ==
    /\ Analyzing
    /\ Top.data.t = "list"
    /\ Top.stage = "items"
    /\ Top.i <= Size(Top.data)
    /\ LET item == Top.data.vals[Top.i]
           next == [Top EXCEPT !.i = NextIndex(Top.i)]
       IN IF ExpandArrayItem(item)
          THEN /\ stack' = Continue(next, << Frame(item, ArrayItemPath(Top.prefix, Top.i - 1)) >>)
               /\ entries' = entries + 1
          ELSE /\ stack' = Continue(next, << >>)
               /\ UNCHANGED entries
    /\ UNCHANGED << widgets, history, button, pc, json_data, messages, request, crashed,
                    shown, out >>

\* the activation has nothing left to run
Finished(f) ==
    \/ f.stage = "header" /\ ~IsContainer(f.data)
    \/ f.stage = "end"
    \/ f.stage = "items" /\ f.i > Size(f.data)

\* the activation returns; the script run ends with the outermost one
AnalyzeReturn ==
    /\ Analyzing
    /\ Finished(Top)
    /\ stack' = SubSeq(stack, 1, Len(stack) - 1)
    /\ pc' = IF Len(stack) = 1 THEN "done" ELSE pc
    /\ UNCHANGED << widgets, history, button, json_data, messages, request, crashed,
                    shown, out, entries >>

(***************************************************************************)
(* UI interactions: each changes one widget and starts a script run.       *)
(* A widget that a run does not render loses its value.                    *)
(***************************************************************************)
Idle == pc = "done" /\ runs < MaxRuns

\* main() starts again from the top
BeginRun(trig, clicked) ==
    /\ pc' = "main"
    /\ button' = clicked
    /\ trigger' = trig
    /\ runs' = runs + 1
    /\ prev_shown' = shown.on
    /\ prev_data' = IF shown.on THEN json_data ELSE prev_data
    /\ prev_out' = IF shown.on THEN out ELSE prev_out
    /\ json_data' = JNull
    /\ messages' = << >>
    /\ request' = NoRequest
    /\ crashed' = FALSE
    /\ shown' = NotShown
    /\ stack' = << >>
    /\ out' = << >>
    /\ entries' = 0

SelectInputMethod ==
    /\ Idle
    /\ input_method' = IF input_method = "file" THEN "api" ELSE "file"
    /\ uploaded_file' = 0
    /\ api_url' = NoText
    /\ api_key' = NoText
    /\ auth_header' = AuthOptions[1]
    /\ custom_headers' = 0
    /\ BeginRun("method", FALSE)

UploadFile ==
    /\ Idle
    /\ input_method = "file"
    /\ \E f \in 0..Len(Files) : f # uploaded_file /\ uploaded_file' = f
    /\ BeginRun("upload", FALSE)
    /\ UNCHANGED << input_method, api_url, api_key, auth_header, custom_headers >>

SetApiUrl ==
    /\ Idle
    /\ input_method = "api"
    /\ api_url' = IF api_url = NoText THEN Url ELSE NoText
    /\ BeginRun("url", FALSE)
    /\ UNCHANGED << input_method, uploaded_file, api_key, auth_header, custom_headers >>

SetApiKey ==
    /\ Idle
    /\ input_method = "api"
    /\ api_key' = IF api_key = NoText THEN Key ELSE NoText
    /\ auth_header' = AuthOptions[1]
    /\ BeginRun("key", FALSE)
    /\ UNCHANGED << input_method, uploaded_file, api_url, custom_headers >>

SelectAuthHeader ==
    /\ Idle
    /\ input_method = "api"
    /\ api_key # NoText
    /\ \E a \in 1..Len(AuthOptions) : AuthOptions[a] # auth_header /\ auth_header' = AuthOptions[a]
    /\ BeginRun("auth", FALSE)
    /\ UNCHANGED << input_method, uploaded_file, api_url, api_key, custom_headers >>

SetCustomHeaders ==
    /\ Idle
    /\ input_method = "api"
    /\ \E h \in 0..Len(HeaderTexts) : h # custom_headers /\ custom_headers' = h
    /\ BeginRun("headers", FALSE)
    /\ UNCHANGED << input_method, uploaded_file, api_url, api_key, auth_header >>

\* the button is rendered only when the run reached it, enabled only with a URL
ClickFetch ==
    /\ Idle
    /\ input_method = "api"
    /\ ~crashed
    /\ api_url # NoText
    /\ BeginRun("fetch", TRUE)
    /\ UNCHANGED widgets

\* the download button exists only when display_json_data ran
ClickDownload ==
    /\ Idle
    /\ shown.on
    /\ BeginRun("download", FALSE)
    /\ UNCHANGED widgets

(***************************************************************************)
(* Specifications.                                                         *)
(***************************************************************************)
\* the session: the page loads with the default widget values
Init ==
    /\ input_method = "api"
    /\ uploaded_file = 0
    /\ api_url = NoText
    /\ api_key = NoText
    /\ auth_header = AuthOptions[1]
    /\ custom_headers = 0
    /\ button = FALSE
    /\ pc = "main"
    /\ json_data = JNull
    /\ messages = << >>
    /\ request = NoRequest
    /\ crashed = FALSE
    /\ shown = NotShown
    /\ stack = << >>
    /\ out = << >>
    /\ entries = 0
    /\ runs = 1
    /\ trigger = "load"
    /\ prev_shown = FALSE
    /\ prev_data = JNull
    /\ prev_out = << >>

Next ==
    \/ HandleFileUpload
    \/ HandleApiRequest
    \/ DisplayJsonData
    \/ AnalyzeHeader
    \/ AnalyzeElementType
    \/ AnalyzeDictItem
    \/ AnalyzeListItem
    \/ AnalyzeReturn
    \/ SelectInputMethod
    \/ UploadFile
    \/ SetApiUrl
    \/ SetApiKey
    \/ SelectAuthHeader
    \/ SetCustomHeaders
    \/ ClickFetch
    \/ ClickDownload

Spec == Init /\ [][Next]_vars

\* one call analyze_json_structure(data, prefix) on any value and path label
WalkInit ==
    /\ input_method = "api"
    /\ uploaded_file = 0
    /\ api_url = NoText
    /\ api_key = NoText
    /\ auth_header = AuthOptions[1]
    /\ custom_headers = 0
    /\ button = FALSE
    /\ pc = "analyze"
    /\ json_data \in WalkValues
    /\ messages = << >>
    /\ request = NoRequest
    /\ crashed = FALSE
    /\ shown = NotShown
    /\ \E p \in WalkPaths : stack = << Frame(json_data, p) >>
    /\ out = << >>
    /\ entries = 1
    /\ runs = 1
    /\ trigger = "load"
    /\ prev_shown = FALSE
    /\ prev_data = JNull
    /\ prev_out = << >>

WalkNext ==
    \/ AnalyzeHeader
    \/ AnalyzeElementType
    \/ AnalyzeDictItem
    \/ AnalyzeListItem
    \/ AnalyzeReturn

WalkSpec == WalkInit /\ [][WalkNext]_vars

\* the walk runs to completion: nothing else is scheduled while it runs
FairWalkSpec == WalkSpec /\ WF_vars(WalkNext)

(***************************************************************************)
(* Measures of a value.                                                    *)
(***************************************************************************)
RECURSIVE Nodes(_)
Nodes(v) == 1 + SeqSum([i \in 1..Size(v) |-> Nodes(v.vals[i])])

RECURSIVE Containers(_)
Containers(v) ==
    (IF IsContainer(v) THEN 1 ELSE 0) + SeqSum([i \in 1..Size(v) |-> Containers(v.vals[i])])

Max(a, b) == IF a >= b THEN a ELSE b

RECURSIVE SeqMax(_)
SeqMax(q) == IF q = << >> THEN 0 ELSE Max(q[1], SeqMax(Tail(q)))

RECURSIVE Depth(_)
Depth(v) == 1 + SeqMax([i \in 1..Size(v) |-> Depth(v.vals[i])])

\* container nodes strictly below the root
InnerContainers(v) == SeqSum([i \in 1..Size(v) |-> Containers(v.vals[i])])

(***************************************************************************)
(* C1: analyze_json_structure(v, path) terminates for every value and path *)
(* label; it is entered at most once per container node below the value it *)
(* was called on, its call depth never exceeds the value's nesting depth,  *)
(* and the lines it emits stay within a bound computed from the value's    *)
(* size (at most two lines per container plus one per node).               *)
(***************************************************************************)
C1_TerminatesBounded ==
    /\ [](/\ entries <= 1 + InnerContainers(json_data)
          /\ Len(stack) <= Depth(json_data)
          /\ Len(out) <= 2 * Containers(json_data) + Nodes(json_data))
    /\ <>(pc = "done")

\* a walk that recursed and emitted lines has returned
C1_Witness == pc = "done" /\ entries >= 3 /\ Len(out) >= 5

(***************************************************************************)
(* Steps of the walk, as the claims speak of them.                         *)
(***************************************************************************)
\* the next statement handles a key of an object
AtDictItem == Analyzing /\ Top.data.t = "dict" /\ Top.stage = "items" /\ Top.i <= Size(Top.data)

\* the next statement handles an element of an array
AtListItem == Analyzing /\ Top.data.t = "list" /\ Top.stage = "items" /\ Top.i <= Size(Top.data)

\* the step called analyze_json_structure
Recursed == Len(stack') = Len(stack) + 1

Dot == Lit(<<".">>)

(***************************************************************************)
(* C2 as claimed: for a key of an object whose value is an object or an    *)
(* array, the walk recurses into the value exactly when the length of its  *)
(* canonical text form (the indented serialization json.dumps(value,       *)
(* ensure_ascii=False, indent=2)) is below 1000.                           *)
(***************************************************************************)
C2_Claimed ==
    [][(AtDictItem /\ IsContainer(Top.data.vals[Top.i]))
         => (Recursed <=> JsonStrLen(Top.data.vals[Top.i]) < OBJ_THRESHOLD)]_vars

(***************************************************************************)
(* C2 as amended: for a key of an object whose value is an object or an    *)
(* array, the walk emits the line `key: <type>` and recurses into the      *)
(* value exactly when the length of str(value), Python's own string form,  *)
(* is below 1000; the recursive call's path is `path.key` when path is not *)
(* empty and `key` when it is.  A child whose str() has 1000 or more       *)
(* characters is announced by type only: the loop moves on to the next key *)
(* without a call.                                                         *)
(***************************************************************************)
C2_Amended ==
    [][(AtDictItem /\ IsContainer(Top.data.vals[Top.i]))
         => LET key == Top.data.keys[Top.i]
                value == Top.data.vals[Top.i]
                path == IF Top.prefix = NoText THEN key
                        ELSE Concat(Concat(Top.prefix, Dot), key)
            IN /\ Len(out') = Len(out) + 1
               /\ out'[Len(out')].kind = "child"
               /\ out'[Len(out')].label = key
               /\ out'[Len(out')].type = value.t
               /\ SubSeq(out', 1, Len(out)) = out
               /\ Recursed <=> StrLen(value) < OBJ_THRESHOLD
               /\ Recursed => /\ stack'[Len(stack')].data = value
                              /\ stack'[Len(stack')].prefix = path
                              /\ stack'[Len(stack')].stage = "header"
               /\ ~Recursed => Len(stack') = Len(stack)
               /\ stack'[Len(stack)].i = Top.i + 1
               /\ stack'[Len(stack)].data = Top.data]_vars

\* an object at a non-empty path has entered a child whose str() is one short
\* of the threshold and whose canonical text form is not
C2_Witness ==
    /\ Analyzing
    /\ Len(stack) >= 2
    /\ stack[Len(stack) - 1].data.t = "dict"
    /\ stack[Len(stack) - 1].prefix # NoText
    /\ Top.stage = "header"
    /\ StrLen(Top.data) = OBJ_THRESHOLD - 1
    /\ JsonStrLen(Top.data) >= OBJ_THRESHOLD
    /\ Top.prefix = Concat(Concat(stack[Len(stack) - 1].prefix, Dot),
                           stack[Len(stack) - 1].data.keys[stack[Len(stack) - 1].i - 1])
    /\ out[Len(out)].kind = "child"

C4_ScalarPreview ==
    [][(AtDictItem /\ ~IsContainer(Top.data.vals[Top.i]))
         => LET key == Top.data.keys[Top.i]
                value == Top.data.vals[Top.i]
                form == ScalarStr(value)
                line == out'[Len(out')]
            IN /\ Len(out') = Len(out) + 1
               /\ SubSeq(out', 1, Len(out)) = out
               /\ Len(stack') = Len(stack)
               /\ line.kind = "scalar"
               /\ line.label = key
               /\ line.type = value.t
               /\ IF TextLen(form) <= PREVIEW_LEN
                  THEN line.preview = form
                  ELSE /\ TextLen(line.preview) = PREVIEW_LEN + 3
                       /\ \A j \in 1..PREVIEW_LEN :
                             CharAt(line.preview, j) = CharAt(form, j)
                       /\ \A j \in (PREVIEW_LEN + 1)..(PREVIEW_LEN + 3) :
                             CharAt(line.preview, j) = "."]_vars

\* the outline holds an untouched 50-character preview, and cut previews of a
\* 51-character and of the 52-character alphabet string
C4_Witness ==
    /\ \E k \in 1..Len(out) :
          out[k].kind = "scalar" /\ out[k].preview = Rep("a", PREVIEW_LEN)
    /\ \E k \in 1..Len(out) :
          out[k].kind = "scalar" /\ out[k].label = Lit(<<"s", "5", "1">>)
          /\ out[k].preview = Concat(Rep("a", PREVIEW_LEN), Ellipsis)
    /\ \E k \in 1..Len(out) :
          out[k].kind = "scalar" /\ out[k].label = T1("z")
          /\ out[k].preview = Concat(Take(Concat(Alphabet, Alphabet), PREVIEW_LEN), Ellipsis)

(***************************************************************************)
(* The outline as a pre-order walk writes it, line by line, without the    *)
(* previews.                                                               *)
(***************************************************************************)
Shape(kind, label, type, count) ==
    [kind |-> kind, label |-> label, type |-> type, count |-> count]

ShapeOf(line) == Shape(line.kind, line.label, line.type, line.count)

RECURSIVE Flat(_)
Flat(q) == IF q = << >> THEN << >> ELSE q[1] \o Flat(Tail(q))

RECURSIVE PreOrder(_, _)
PreOrder(v, path) ==
    LET header == Shape("header", IF path = NoText THEN Lit(<<"R", "o", "o", "t">>) ELSE path,
                        v.t, Size(v))
    IN CASE v.t = "dict" ->
              << header >>
              \o Flat([i \in 1..Size(v) |->
                    IF IsContainer(v.vals[i])
                    THEN << Shape("child", v.keys[i], v.vals[i].t, 0) >>
                         \o (IF StrLen(v.vals[i]) < OBJ_THRESHOLD
                             THEN PreOrder(v.vals[i],
                                           IF path = NoText THEN v.keys[i]
                                           ELSE Concat(Concat(path, Dot), v.keys[i]))
                             ELSE << >>)
                    ELSE << Shape("scalar", v.keys[i], v.vals[i].t, 0) >>])
         [] v.t = "list" ->
              << header >>
              \o (IF Size(v) = 0 THEN << >>
                  ELSE << Shape("elemtype", NoText, v.vals[1].t, 0) >>
                       \o (IF Size(v) > ARR_CAP THEN << >>
                           ELSE Flat([i \in 1..Size(v) |->
                                  IF IsContainer(v.vals[i]) /\ StrLen(v.vals[i]) < ARR_THRESHOLD
                                  THEN PreOrder(v.vals[i],
                                                Concat(path, Concat(Concat(Lit(<<"[">>),
                                                                           IntStr(i - 1)),
                                                                    Lit(<<"]">>))))
                                  ELSE << >>])))
         [] OTHER -> << >>

(***************************************************************************)
(* C10: the outline is emitted in pre-order.  At every moment of a walk    *)
(* the lines written so far are the beginning of the pre-order outline of  *)
(* the value at its path: a container's header line (path or `Root`, kind, *)
(* exact count) comes before any line of its children, an object then has  *)
(* one line per key in iteration order with a child's own lines right      *)
(* after that child's `key: <type>` line and before the next key's line,   *)
(* an array has its first-element type line before the lines of expanded   *)
(* elements, which come in index order; when the outermost call is about   *)
(* to return the outline is complete.                                      *)
(***************************************************************************)
C10_PreOrder ==
    Analyzing =>
        LET whole == PreOrder(stack[1].data, stack[1].prefix)
        IN /\ Len(out) <= Len(whole)
           /\ \A k \in 1..Len(out) : ShapeOf(out[k]) = whole[k]
           /\ (Len(stack) = 1 /\ Finished(Top)) => Len(out) = Len(whole)

\* the walk of DocNest is complete: lines of nested children lie between the
\* lines of the root's keys
C10_Witness ==
    /\ Analyzing
    /\ Len(stack) = 1
    /\ Finished(Top)
    /\ Top.data = DocNest
    /\ \E j, k, m \in 1..Len(out) :
          /\ j < k /\ k < m
          /\ out[j].kind = "child" /\ out[j].label = T1("a")
          /\ out[k].kind = "header" /\ out[k].label = Lit(<<"a", "[", "1", "]">>)
          /\ out[m].kind = "child" /\ out[m].label = T1("c")

(***************************************************************************)
(* Outcomes of a script run.                                               *)
(***************************************************************************)
Said(level) == \E k \in 1..Len(messages) : messages[k].level = level

\* the input of this run was not JSON
Malformed ==
    \/ /\ input_method = "file"
       /\ uploaded_file # 0
       /\ ~(Files[uploaded_file].utf8 /\ Files[uploaded_file].valid)
    \/ request.resp = "bad_body"

(***************************************************************************)
(* C5: malformed JSON, uploaded as a file or received as an API response   *)
(* body, ends the handler with an error message and no value; in that run  *)
(* display_json_data and analyze_json_structure are never called.          *)
(***************************************************************************)
C5_MalformedRejected ==
    (pc # "main" /\ Malformed)
        => /\ pc = "done"
           /\ Said("error")
           /\ ~Said("success")
           /\ json_data = JNull
           /\ ~shown.on
           /\ entries = 0
           /\ stack = << >>
           /\ out = << >>

\* a run whose API response body was not JSON has ended
C5_Witness ==
    /\ pc = "done"
    /\ request.sent
    /\ request.resp = "bad_body"
    /\ Said("error")

(***************************************************************************)
(* C6: no error leaves the input handlers: for every uploaded content and  *)
(* every combination of URL, API key, custom-header text and fetch outcome *)
(* they return normally.                                                   *)
(***************************************************************************)
C6_NoErrorEscapes == ~crashed

(***************************************************************************)
(* C7: every successfully parsed value is rendered: a run whose handler    *)
(* reported a successful load has called display_json_data, which showed   *)
(* the value's top-level type.                                             *)
(***************************************************************************)
C7_EveryValueRendered ==
    (pc = "done" /\ Said("success")) => (shown.on /\ shown.type = json_data.t)

C9_ValueKept ==
    (pc = "done" /\ prev_shown /\ trigger \in {"download", "key", "auth", "headers"})
        => (shown.on /\ json_data = prev_data)

=============================================================================
